---- MODULE Spec2Model ----
(***************************************************************************)
(* avocado/utils/process.py: SubProcess (a child process, two drainer       *)
(* threads, the control thread's wait protocol) and run().                  *)
(*                                                                          *)
(* Time is a discrete clock `now` read by time.time(); the child, its       *)
(* signals, the two pipes, the two drainer threads and the control thread   *)
(* interleave freely.  An optional value (None / a number) is a sequence    *)
(* of length 0 or 1.                                                        *)
(*                                                                          *)
(* Spec, LiveSpec, WaitLiveSpec: SubProcess and run().                      *)
(* LockSpec: the buffers' locks step by step, with a get_stdout caller.     *)
(* EchoSpec: one verbose drainer.  FindSpec: find_command.                  *)
(***************************************************************************)
EXTENDS Integers, Sequences, FiniteSets, TLC

\* ---------------------------------------------------------------- bounds
MaxTime == 1          \* longest time the control thread stays blocked in sp.wait()
MaxDelay == 1         \* longest time between the spawn and the call of wait
MaxTimeout == 1       \* largest timeout passed to wait
MaxWrites == 2        \* longest child program (bytes written)
PipeCap == 1          \* kernel pipe capacity, in bytes
ChunkSize == 1        \* bytes asked of os.read (1024 in the source, scaled)
MaxCalls == 1         \* terminate()/kill() calls made by the owner of the object

\* ------------------------------------------------------- program constants
SIGTERM == 15
SIGKILL == 9
JoinTimeout == 1      \* thread.join(1)
DefaultGrace == 1     \* timeout = 1 in the else branch of wait

None == <<>>
Some(x) == <<x>>
Val(o) == o[1]

Streams == {"stdout", "stderr"}

VARIABLES
  \* the child process and the operating system
  prog,          \* the child's program: the stream each successive byte goes to
  cpc,           \* bytes the child has written so far
  childState,    \* "running" | "zombie" (exited, not reaped) | "reaped"
  childStatus,   \* what waitpid yields: None while running
  pendingSig,    \* signals sent to the child and not yet acted upon
  holder,        \* a descendant of the child holds the pipes' write ends open
  pidReused,     \* the child's pid, reaped, has been given to another process
  otherSig,      \* signals that reached that other process
  now,           \* the wall clock
  \* pipes and drainer threads
  pipe,          \* [stream -> bytes in the kernel buffer]
  pipeClosed,    \* [stream -> the read end was closed by cleanup]
  dpc,           \* [stream -> position of the drainer thread]
  tmp,           \* [stream -> the chunk the drainer last read]
  lock,          \* [stream -> "free" | "drainer" | "caller"]
  file,          \* [stream -> contents of stdout_file / stderr_file]
  \* the control thread
  ignore_status, \* run()'s argument, unset until run() uses it
  pc,            \* position of the control thread
  timeoutArg,    \* the timeout wait was called with
  timeout,       \* wait's local variable timeout
  start_time,    \* self.start_time, taken right after the spawn
  wstart,        \* wait's local start_time
  stop_time,     \* wait's local stop_time
  joinDeadline,  \* deadline of the join in progress
  result,        \* self.result
  failure,       \* the assertion that aborted cleanup, "" if none
  runOutcome,    \* "pending" | "returned" | "CmdError" | "AssertionError"
  \* history
  waitTermSent,  \* wait has called terminate()
  waitKillSent,  \* wait has called kill()
  exitCause,     \* "none" | "own" | "term" | "kill"
  exitEarly,     \* the child ended by itself before wait called terminate()
  exitedAtCall,  \* the child had already exited when wait was called
  calls,         \* terminate()/kill() calls made by the owner
  raised,        \* an owner's terminate()/kill() call raised
  \* a thread of the owner calling get_stdout() / get_stderr()
  callpc,        \* "idle", or the stream whose lock the caller holds
  snap,          \* [stream -> the last value get_stdout / get_stderr returned]
  \* a drainer with verbose echoing, seen alone
  stream,        \* the characters of the pipe not yet read
  captured,      \* the characters written to the output buffer
  bfr,           \* _fd_drainer's local bfr
  logged,        \* the lines passed to log.debug, in order
  echoDone,      \* the drainer has left its loop
  \* find_command
  environ,       \* os.environ: PATH unset (None) or its list of entries
  files,         \* the directories that hold a regular file named cmd
  found          \* the outcome of find_command(cmd), None before the call

osVars    == <<prog, cpc, childState, childStatus,
               pendingSig, holder, pidReused, otherSig, exitCause, exitEarly>>
ioVars    == <<pipe, pipeClosed, dpc, tmp, lock, file>>
ctlVars   == <<ignore_status, pc, timeoutArg, timeout, start_time, wstart,
               stop_time, joinDeadline, result, failure, runOutcome,
               waitTermSent, waitKillSent, exitedAtCall, calls, raised>>
callVars  == <<callpc, snap>>
echoVars  == <<stream, captured, bfr, logged, echoDone>>
findVars  == <<environ, files, found>>
restVars  == <<callVars, echoVars, findVars>>
vars      == <<osVars, ioVars, ctlVars, now, restVars>>

\* ------------------------------------------------------------ the inputs
RECURSIVE SeqsUpTo(_, _)
SeqsUpTo(S, n) ==
  IF n = 0 THEN {<<>>}
  ELSE LET shorter == SeqsUpTo(S, n - 1)
       IN  shorter \cup {Append(q, x) : q \in shorter, x \in S}

Programs  == SeqsUpTo(Streams, MaxWrites)
ExitCodes == {0, 1}
Timeouts  == {None} \cup {Some(t) : t \in -1..MaxTimeout}

Min(a, b) == IF a < b THEN a ELSE b

\* CmdResult.__init__
CmdResult == [exit_status |-> None, stdout |-> <<>>, stderr |-> <<>>, duration |-> 0]

\* SubProcess.__init__ has run: the child is spawned, start_time is taken,
\* both drainer threads are started and sit at their first os.read.
InitSubProcess ==
  /\ prog \in Programs
  /\ cpc = 0
  /\ childState = "running"
  /\ childStatus = None
  /\ pendingSig = {}
  /\ holder \in BOOLEAN
  /\ pidReused = FALSE
  /\ otherSig = {}
  /\ now = 0
  /\ pipe = [s \in Streams |-> <<>>]
  /\ pipeClosed = [s \in Streams |-> FALSE]
  /\ dpc = [s \in Streams |-> "read"]
  /\ tmp = [s \in Streams |-> <<>>]
  /\ lock = [s \in Streams |-> "free"]
  /\ file = [s \in Streams |-> <<>>]
  /\ ignore_status = None
  /\ pc = "init"
  /\ timeoutArg = None
  /\ timeout = None
  /\ start_time = now
  /\ wstart = 0
  /\ stop_time = 0
  /\ joinDeadline = 0
  /\ result = CmdResult
  /\ failure = ""
  /\ runOutcome = "pending"
  /\ waitTermSent = FALSE
  /\ waitKillSent = FALSE
  /\ exitCause = "none"
  /\ exitEarly = FALSE
  /\ exitedAtCall = FALSE
  /\ calls = 0
  /\ raised = FALSE
  /\ callpc = "idle"
  /\ snap = [s \in Streams |-> <<>>]

\* no verbose drainer is looked at alone, find_command is not called
InitEcho == stream = <<>> /\ captured = <<>> /\ bfr = <<>> /\ logged = <<>> /\ echoDone = FALSE
InitFind == environ = None /\ files = {} /\ found = None

Init == InitSubProcess /\ InitEcho /\ InitFind

\* ------------------------------------------------------------ the child
\* The child writes its next byte; a full pipe blocks it.  Byte i of the
\* program is the number i, so every byte is distinguishable.
ChildWrite ==
  /\ childState = "running"
  /\ cpc < Len(prog)
  /\ LET s == prog[cpc + 1]
     IN  /\ Len(pipe[s]) < PipeCap
         /\ pipe' = [pipe EXCEPT ![s] = Append(@, cpc + 1)]
  /\ cpc' = cpc + 1
  /\ UNCHANGED <<prog, childState, childStatus, pendingSig, holder, pidReused,
                 otherSig, exitCause, exitEarly>>
  /\ UNCHANGED <<pipeClosed, dpc, tmp, lock, file>>
  /\ UNCHANGED <<ctlVars, now, restVars>>

\* The child ends by itself once its program is complete.
ChildExit ==
  /\ childState = "running"
  /\ cpc = Len(prog)
  /\ \E code \in ExitCodes : childStatus' = Some(code)
  /\ childState' = "zombie"
  /\ pendingSig' = {}
  /\ exitCause' = "own"
  /\ exitEarly' = ~waitTermSent
  /\ UNCHANGED <<prog, cpc, holder, pidReused, otherSig>>
  /\ UNCHANGED <<ioVars, ctlVars, now, restVars>>

\* A pending signal is acted upon.  SIGKILL always ends the child; SIGTERM
\* ends it unless the child ignores or handles it.
DeliverSignal ==
  /\ childState = "running"
  /\ \E sig \in pendingSig :
       /\ \E dies \in (IF sig = SIGKILL THEN {TRUE} ELSE BOOLEAN) :
            IF dies
            THEN /\ pendingSig' = {}
                 /\ childState' = "zombie"
                 /\ childStatus' = Some(0 - sig)
                 /\ exitCause' = IF sig = SIGKILL THEN "kill" ELSE "term"
            ELSE /\ pendingSig' = pendingSig \ {sig}
                 /\ UNCHANGED <<childState, childStatus, exitCause>>
  /\ UNCHANGED <<prog, cpc, holder, pidReused, otherSig, exitEarly>>
  /\ UNCHANGED <<ioVars, ctlVars, now, restVars>>

\* The descendant holding the pipes' write ends goes away.
HolderExit ==
  /\ holder
  /\ holder' = FALSE
  /\ UNCHANGED <<prog, cpc, childState, childStatus, pendingSig, pidReused,
                 otherSig, exitCause, exitEarly>>
  /\ UNCHANGED <<ioVars, ctlVars, now, restVars>>

\* Once the child is reaped the kernel may hand its pid to a new process
\* (followed where a terminate()/kill() call of the owner can come next).
PidReuse ==
  /\ childState = "reaped"
  /\ runOutcome = "pending" /\ calls < MaxCalls
  /\ pc \in {"init", "returned", "failed"}
  /\ ~pidReused
  /\ pidReused' = TRUE
  /\ UNCHANGED <<prog, cpc, childState, childStatus, pendingSig, holder,
                 otherSig, exitCause, exitEarly>>
  /\ UNCHANGED <<ioVars, ctlVars, now, restVars>>

\* ------------------------------------------------------ the drainer threads
\* (mutant: both pipes are drained into the stdout buffer)
output_file_stdout(s) == "stdout"

\* _fd_drainer: the buffer a pipe is drained into
output_file(s) == s

\* os.read(fileno, 1024): up to ChunkSize bytes, as many as the pipe holds
ReadChunk(buf) == SubSeq(buf, 1, Min(ChunkSize, Len(buf)))
RestAfter(buf) == SubSeq(buf, Min(ChunkSize, Len(buf)) + 1, Len(buf))

\* every write end of the pipe is closed and nothing is left in it
EndOfStream(s) == pipe[s] = <<>> /\ childState # "running" /\ ~holder

\* (mutant: a thread is never reported alive)
isAlive_never(s) == FALSE

isAlive(s) == dpc[s] # "done"

\* (mutant: one reader drains stdout to its end before it reads stderr)
fd_read_in_turn(s) ==
  /\ dpc[s] = "read"
  /\ s = "stderr" => dpc["stdout"] = "done"
  /\ \/ /\ pipe[s] # <<>>
        /\ tmp' = [tmp EXCEPT ![s] = ReadChunk(pipe[s])]
        /\ pipe' = [pipe EXCEPT ![s] = RestAfter(@)]
        /\ dpc' = [dpc EXCEPT ![s] = "append"]
     \/ /\ EndOfStream(s)
        /\ tmp' = [tmp EXCEPT ![s] = <<>>]
        /\ dpc' = [dpc EXCEPT ![s] = "done"]
        /\ UNCHANGED pipe
  /\ UNCHANGED <<pipeClosed, lock, file>>
  /\ UNCHANGED <<osVars, ctlVars, now, restVars>>

\* tmp = os.read(fileno, 1024); if tmp == '': break
fd_read(s) ==
  /\ dpc[s] = "read"
  /\ \/ /\ pipe[s] # <<>>
        /\ tmp' = [tmp EXCEPT ![s] = ReadChunk(pipe[s])]
        /\ pipe' = [pipe EXCEPT ![s] = RestAfter(@)]
        /\ dpc' = [dpc EXCEPT ![s] = "append"]
     \/ /\ EndOfStream(s)
        /\ tmp' = [tmp EXCEPT ![s] = <<>>]
        /\ dpc' = [dpc EXCEPT ![s] = "done"]
        /\ UNCHANGED pipe
  /\ UNCHANGED <<pipeClosed, lock, file>>
  /\ UNCHANGED <<osVars, ctlVars, now, restVars>>

\* lock.acquire(); output_file.write(tmp); lock.release(): the append is made
\* while the buffer's lock is held, so it is one step for every other thread
\* (tmp is overwritten by the next os.read: it is cleared here)
fd_append(s) ==
  /\ dpc[s] = "append"
  /\ lock[output_file(s)] = "free"
  /\ file' = [file EXCEPT ![output_file(s)] = @ \o tmp[s]]
  /\ tmp' = [tmp EXCEPT ![s] = <<>>]
  /\ dpc' = [dpc EXCEPT ![s] = "read"]
  /\ UNCHANGED <<pipe, pipeClosed, lock>>
  /\ UNCHANGED <<osVars, ctlVars, now, restVars>>

fd_drainer == \E s \in Streams : fd_read(s) \/ fd_append(s)

\* ------------------------------------------------------- signals and poll
\* os.kill(self.sp.pid, sig): the signal goes to whichever process has the
\* pid now.  A zombie keeps its pid and is not affected; a free pid makes
\* os.kill raise OSError(ESRCH).
os_kill(sig) ==
  /\ pendingSig' = IF childState = "running" THEN pendingSig \cup {sig} ELSE pendingSig
  /\ otherSig' = IF childState = "reaped" /\ pidReused THEN otherSig \cup {sig} ELSE otherSig

os_kill_raises == childState = "reaped" /\ ~pidReused

\* try: os.kill(...) except: pass -- whether the error leaves terminate()/kill()
Propagates(err) == FALSE

\* self.sp.poll(): the exit status once the child has exited, reaping it
poll == IF childState = "running" THEN None ELSE childStatus
Reaped(st) == IF st = "zombie" THEN "reaped" ELSE st

\* Python 2 orders None below every number: None > 0 is False
GreaterThanZero(t) == t # None /\ Val(t) > 0

\* SubProcess.terminate / SubProcess.kill: the signal is sent, an error of
\* os.kill is swallowed by the bare except
terminate == os_kill(SIGTERM)
kill == os_kill(SIGKILL)
signal_raises == os_kill_raises /\ Propagates("ESRCH")

\* --------------------------------------------------- the control thread
ctlFrame == UNCHANGED <<ignore_status, start_time, runOutcome, calls, raised>>
osFrame  == UNCHANGED <<prog, cpc, holder, pidReused, exitCause, exitEarly>>

\* wait(timeout), lines 232-244 up to the first blocking or polling call
wait_call(t) ==
  /\ pc = "init"
  /\ timeoutArg' = t
  /\ exitedAtCall' = (childState # "running")
  /\ IF t = None
     THEN /\ pc' = "sp_wait"
          /\ timeout' = t
          /\ UNCHANGED wstart
     ELSE IF GreaterThanZero(t)
     THEN /\ wstart' = now
          /\ pc' = "loop1"
          /\ timeout' = t
     ELSE /\ timeout' = Some(DefaultGrace)
          /\ pc' = "if_none"
          /\ UNCHANGED wstart
  /\ UNCHANGED <<stop_time, joinDeadline, result, failure, waitTermSent, waitKillSent>>
  /\ ctlFrame
  /\ UNCHANGED <<osVars, ioVars, now, restVars>>

\* (mutant: the child is polled instead of waited for)
sp_wait_polls ==
  /\ pc = "sp_wait"
  /\ result' = [result EXCEPT !.exit_status = poll]
  /\ childState' = Reaped(childState)
  /\ timeout' = Some(DefaultGrace)
  /\ pc' = "if_none"
  /\ UNCHANGED <<timeoutArg, wstart, stop_time, joinDeadline, failure, waitTermSent,
                 waitKillSent, exitedAtCall>>
  /\ ctlFrame
  /\ osFrame
  /\ UNCHANGED <<childStatus, pendingSig, otherSig>>
  /\ UNCHANGED <<ioVars, now, restVars>>

\* self.sp.wait(); self.result.exit_status = self.sp.returncode; then the
\* test timeout > 0 fails for None and timeout becomes 1
sp_wait ==
  /\ pc = "sp_wait"
  /\ childState # "running"
  /\ result' = [result EXCEPT !.exit_status = childStatus]
  /\ childState' = Reaped(childState)
  /\ IF GreaterThanZero(timeout)
     THEN /\ wstart' = now
          /\ pc' = "loop1"
          /\ UNCHANGED timeout
     ELSE /\ timeout' = Some(DefaultGrace)
          /\ pc' = "if_none"
          /\ UNCHANGED wstart
  /\ UNCHANGED <<timeoutArg, stop_time, joinDeadline, failure, waitTermSent,
                 waitKillSent, exitedAtCall>>
  /\ ctlFrame
  /\ osFrame
  /\ UNCHANGED <<childStatus, pendingSig, otherSig>>
  /\ UNCHANGED <<ioVars, now, restVars>>

\* while time.time() - start_time < timeout:
DeadlinePassed == ~(now - wstart < Val(timeout))

loop1 ==
  /\ pc = "loop1"
  /\ pc' = IF DeadlinePassed THEN "if_none" ELSE "poll1"
  /\ UNCHANGED <<timeoutArg, timeout, wstart, stop_time, joinDeadline, result,
                 failure, waitTermSent, waitKillSent, exitedAtCall>>
  /\ ctlFrame
  /\ UNCHANGED <<osVars, ioVars, now, restVars>>

\* self.result.exit_status = self.sp.poll(); break when it is set
PollStep(here, onStatus, onNone) ==
  /\ pc = here
  /\ result' = [result EXCEPT !.exit_status = poll]
  /\ childState' = Reaped(childState)
  /\ pc' = IF poll # None THEN onStatus ELSE onNone
  /\ UNCHANGED <<timeoutArg, timeout, wstart, stop_time, joinDeadline, failure,
                 waitTermSent, waitKillSent, exitedAtCall>>
  /\ ctlFrame
  /\ osFrame
  /\ UNCHANGED <<childStatus, pendingSig, otherSig>>
  /\ UNCHANGED <<ioVars, now, restVars>>

poll1 == PollStep("poll1", "if_none", "loop1")

\* (mutant: after terminate() the status is not polled for again)
if_none_gives_up ==
  /\ pc = "if_none"
  /\ IF result.exit_status = None
     THEN terminate /\ waitTermSent' = TRUE
     ELSE UNCHANGED <<pendingSig, otherSig, waitTermSent>>
  /\ pc' = "duration"
  /\ UNCHANGED <<timeoutArg, timeout, wstart, stop_time, joinDeadline, result,
                 failure, waitKillSent, exitedAtCall>>
  /\ ctlFrame
  /\ osFrame
  /\ UNCHANGED <<childState, childStatus>>
  /\ UNCHANGED <<ioVars, now, restVars>>

\* if self.result.exit_status is None: self.terminate()
if_none ==
  /\ pc = "if_none"
  /\ IF result.exit_status = None
     THEN /\ terminate
          /\ waitTermSent' = TRUE
          /\ IF signal_raises
             THEN pc' = "failed" /\ failure' = "OSError"
             ELSE pc' = "stop_time" /\ UNCHANGED failure
     ELSE /\ pc' = "duration"
          /\ UNCHANGED <<pendingSig, otherSig, waitTermSent, failure>>
  /\ UNCHANGED <<timeoutArg, timeout, wstart, stop_time, joinDeadline, result,
                 waitKillSent, exitedAtCall>>
  /\ ctlFrame
  /\ osFrame
  /\ UNCHANGED <<childState, childStatus>>
  /\ UNCHANGED <<ioVars, now, restVars>>

\* stop_time = time.time() + timeout
set_stop_time ==
  /\ pc = "stop_time"
  /\ stop_time' = now + Val(timeout)
  /\ pc' = "loop2"
  /\ UNCHANGED <<timeoutArg, timeout, wstart, joinDeadline, result, failure,
                 waitTermSent, waitKillSent, exitedAtCall>>
  /\ ctlFrame
  /\ UNCHANGED <<osVars, ioVars, now, restVars>>

\* (mutant: the grace loop is left at once)
GraceNotWaited == TRUE

\* while time.time() < stop_time: ... else: (the loop ran out)
GraceExpired == ~(now < stop_time)

loop2 ==
  /\ pc = "loop2"
  /\ pc' = IF GraceExpired THEN "kill" ELSE "poll2"
  /\ UNCHANGED <<timeoutArg, timeout, wstart, stop_time, joinDeadline, result,
                 failure, waitTermSent, waitKillSent, exitedAtCall>>
  /\ ctlFrame
  /\ UNCHANGED <<osVars, ioVars, now, restVars>>

poll2 == PollStep("poll2", "duration", "loop2")

\* else: self.kill()
wait_kill ==
  /\ pc = "kill"
  /\ kill
  /\ waitKillSent' = TRUE
  /\ IF signal_raises
     THEN pc' = "failed" /\ failure' = "OSError"
     ELSE pc' = "poll3" /\ UNCHANGED failure
  /\ UNCHANGED <<timeoutArg, timeout, wstart, stop_time, joinDeadline, result,
                 waitTermSent, exitedAtCall>>
  /\ ctlFrame
  /\ osFrame
  /\ UNCHANGED <<childState, childStatus>>
  /\ UNCHANGED <<ioVars, now, restVars>>

\* self.result.exit_status = self.sp.poll(), once, after kill()
poll3 == PollStep("poll3", "duration", "duration")

\* (mutant: the duration is not stored before cleanup)
set_duration_skipped ==
  /\ pc = "duration"
  /\ pc' = "cleanup"
  /\ wstart' = 0
  /\ stop_time' = 0
  /\ UNCHANGED <<timeoutArg, timeout, joinDeadline, result, failure,
                 waitTermSent, waitKillSent, exitedAtCall>>
  /\ ctlFrame
  /\ UNCHANGED <<osVars, ioVars, now, restVars>>

\* duration = time.time() - self.start_time; self.result.duration = duration
\* (wait's locals start_time and stop_time are not used again: they are cleared)
set_duration ==
  /\ pc = "duration"
  /\ result' = [result EXCEPT !.duration = now - start_time]
  /\ pc' = "cleanup"
  /\ wstart' = 0
  /\ stop_time' = 0
  /\ UNCHANGED <<timeoutArg, timeout, joinDeadline, failure,
                 waitTermSent, waitKillSent, exitedAtCall>>
  /\ ctlFrame
  /\ UNCHANGED <<osVars, ioVars, now, restVars>>

\* ------------------------------------------------------------- cleanup
waitFrame == UNCHANGED <<timeoutArg, timeout, wstart, stop_time, waitTermSent,
                         waitKillSent, exitedAtCall>>

\* (mutant: join without a timeout)
JoinWaitsForever(s) == ~isAlive(s)

\* thread.join(1) returns when the thread has ended or one second has gone
JoinOver(s) == ~isAlive(s) \/ now >= joinDeadline

\* (mutant: the pipes are closed on entry of cleanup)
cleanup_closes_first ==
  /\ pc = "cleanup"
  /\ joinDeadline' = now + JoinTimeout
  /\ pipeClosed' = [s \in Streams |-> TRUE]
  /\ pc' = "join_stdout"
  /\ UNCHANGED <<result, failure>>
  /\ waitFrame /\ ctlFrame
  /\ UNCHANGED <<pipe, dpc, tmp, lock, file>>
  /\ UNCHANGED <<osVars, now, restVars>>

\* self.cleanup() is entered: self.stdout_thread.join(1) starts
cleanup ==
  /\ pc = "cleanup"
  /\ joinDeadline' = now + JoinTimeout
  /\ pc' = "join_stdout"
  /\ UNCHANGED <<result, failure>>
  /\ waitFrame /\ ctlFrame
  /\ UNCHANGED <<osVars, ioVars, now, restVars>>

\* self.stdout_thread.join(1) returns; self.stderr_thread.join(1) starts
join_stdout ==
  /\ pc = "join_stdout"
  /\ JoinOver("stdout")
  /\ joinDeadline' = now + JoinTimeout
  /\ pc' = "join_stderr"
  /\ UNCHANGED <<result, failure>>
  /\ waitFrame /\ ctlFrame
  /\ UNCHANGED <<osVars, ioVars, now, restVars>>

\* self.stderr_thread.join(1) returns (its deadline is not used again)
join_stderr ==
  /\ pc = "join_stderr"
  /\ JoinOver("stderr")
  /\ pc' = "assert_stdout"
  /\ joinDeadline' = 0
  /\ UNCHANGED <<result, failure>>
  /\ waitFrame /\ ctlFrame
  /\ UNCHANGED <<osVars, ioVars, now, restVars>>

\* (mutant: the assertion is not evaluated)
AssertSkipped(here, ok, next, msg) ==
  /\ pc = here
  /\ pc' = next
  /\ UNCHANGED <<joinDeadline, result, failure>>
  /\ waitFrame /\ ctlFrame
  /\ UNCHANGED <<osVars, ioVars, now, restVars>>

\* assert not thread.isAlive(), e_msg
AssertStep(here, ok, next, msg) ==
  /\ pc = here
  /\ IF ok THEN pc' = next /\ UNCHANGED failure
           ELSE pc' = "failed" /\ failure' = msg
  /\ UNCHANGED <<joinDeadline, result>>
  /\ waitFrame /\ ctlFrame
  /\ UNCHANGED <<osVars, ioVars, now, restVars>>

assert_stdout == AssertStep("assert_stdout", ~isAlive("stdout"), "assert_stderr", "stdout_alive")
assert_stderr == AssertStep("assert_stderr", ~isAlive("stderr"), "assert_status", "stderr_alive")

\* assert self.result.exit_status is not None, 'Zombie Process ...'
assert_status == AssertStep("assert_status", result.exit_status # None, "close", "zombie")

\* self.sp.stdout.close(); self.sp.stderr.close()
close ==
  /\ pc = "close"
  /\ pipeClosed' = [s \in Streams |-> TRUE]
  /\ pc' = "get_stdout"
  /\ UNCHANGED <<joinDeadline, result, failure>>
  /\ waitFrame /\ ctlFrame
  /\ UNCHANGED <<pipe, dpc, tmp, lock, file>>
  /\ UNCHANGED <<osVars, now, restVars>>

\* get_stdout / get_stderr: the buffer's value, read under its lock
getvalue(s) == file[s]

\* self.result.stdout = self.get_stdout()
get_stdout ==
  /\ pc = "get_stdout"
  /\ lock["stdout"] = "free"
  /\ result' = [result EXCEPT !.stdout = getvalue("stdout")]
  /\ pc' = "get_stderr"
  /\ UNCHANGED <<joinDeadline, failure>>
  /\ waitFrame /\ ctlFrame
  /\ UNCHANGED <<osVars, ioVars, now, restVars>>

\* self.result.stderr = self.get_stderr(); return self.result
get_stderr ==
  /\ pc = "get_stderr"
  /\ lock["stderr"] = "free"
  /\ result' = [result EXCEPT !.stderr = getvalue("stderr")]
  /\ pc' = "returned"
  /\ UNCHANGED <<joinDeadline, failure>>
  /\ waitFrame /\ ctlFrame
  /\ UNCHANGED <<osVars, ioVars, now, restVars>>

\* ------------------------------------------------------------ the clock
\* Only the control thread reads the clock, and every reading but the one of
\* the spawn is compared with an earlier one.  Time therefore passes where
\* its passing can be observed: before wait is called (at most MaxDelay),
\* while the control thread is blocked in sp.wait() (up to MaxTime), while
\* a polling loop has not reached its deadline, and while a timed join has
\* not reached its own.
ClockObserved ==
  \/ pc = "init" /\ now < MaxDelay
  \/ pc = "sp_wait" /\ now < MaxTime
  \/ pc = "loop1" /\ ~DeadlinePassed
  \/ pc = "loop2" /\ ~GraceExpired
  \/ pc \in {"join_stdout", "join_stderr"} /\ now < joinDeadline

Tick ==
  /\ ClockObserved
  /\ now' = now + 1
  /\ UNCHANGED <<osVars, ioVars, ctlVars, restVars>>

\* ------------------------------------------------------------------ run
\* run(cmd, timeout, verbose, ignore_status) is SubProcess(cmd), wait(timeout)
\* and the test below: the executions in which the owner of the SubProcess
\* calls nothing but wait.

\* (mutant: only a positive status counts as a failure)
CmdFailedPositive(status, ignore) == status # None /\ Val(status) > 0 /\ ~ignore

\* if cmd_result.exit_status != 0 and not ignore_status: raise CmdError
CmdFailed(status, ignore) == status # Some(0) /\ ~ignore

run_check(ignore) ==
  /\ calls = 0
  /\ pc = "returned"
  /\ runOutcome = "pending"
  /\ ignore_status' = Some(ignore)
  /\ runOutcome' = IF CmdFailed(result.exit_status, ignore) THEN "CmdError" ELSE "returned"
  /\ UNCHANGED <<pc, timeoutArg, timeout, start_time, wstart,
                 stop_time, joinDeadline, result, failure, waitTermSent,
                 waitKillSent, exitedAtCall, calls, raised>>
  /\ UNCHANGED <<osVars, ioVars, now, restVars>>

\* an assertion of cleanup leaves wait and run
run_abort ==
  /\ calls = 0
  /\ pc = "failed"
  /\ runOutcome = "pending"
  /\ runOutcome' = "AssertionError"
  /\ UNCHANGED <<ignore_status, pc, timeoutArg, timeout, start_time, wstart,
                 stop_time, joinDeadline, result, failure, waitTermSent,
                 waitKillSent, exitedAtCall, calls, raised>>
  /\ UNCHANGED <<osVars, ioVars, now, restVars>>

\* --------------------------------- terminate()/kill() called by the owner
\* The owner of a SubProcess calls terminate() or kill() itself, before
\* wait or after it.
OwnerIdle == runOutcome = "pending" /\ pc \in {"init", "returned", "failed"}

OwnerCall(sig) ==
  /\ OwnerIdle
  /\ calls < MaxCalls
  /\ calls' = calls + 1
  /\ os_kill(sig)
  /\ raised' = (raised \/ signal_raises)
  /\ UNCHANGED <<ignore_status, pc, timeoutArg, timeout, start_time, wstart,
                 stop_time, joinDeadline, result, failure, runOutcome, waitTermSent,
                 waitKillSent, exitedAtCall>>
  /\ osFrame
  /\ UNCHANGED <<childState, childStatus>>
  /\ UNCHANGED <<ioVars, now, restVars>>

call_terminate == OwnerCall(SIGTERM)
call_kill == OwnerCall(SIGKILL)

\* ---------------------------------------------------------- specification
wait == \/ \E t \in Timeouts : wait_call(t)
        \/ sp_wait \/ loop1 \/ poll1 \/ if_none \/ set_stop_time \/ loop2 \/ poll2
        \/ wait_kill \/ poll3 \/ set_duration
        \/ cleanup \/ join_stdout \/ join_stderr \/ assert_stdout \/ assert_stderr
        \/ assert_status \/ close \/ get_stdout \/ get_stderr

Next ==
  \/ Tick \/ ChildWrite \/ ChildExit \/ DeliverSignal \/ HolderExit \/ PidReuse
  \/ fd_drainer
  \/ wait
  \/ (\E ignore \in BOOLEAN : run_check(ignore)) \/ run_abort
  \/ call_terminate \/ call_kill

Spec == Init /\ [][Next]_vars

\* The operating system schedules the child and both drainer threads: each
\* of them takes its next step if it stays able to, and a pending signal is
\* delivered.
Fairness ==
  /\ WF_vars(ChildWrite)
  /\ WF_vars(ChildExit)
  /\ WF_vars(DeliverSignal)
  /\ \A s \in Streams : WF_vars(fd_read(s)) /\ WF_vars(fd_append(s))

LiveSpec == Init /\ [][Next]_vars /\ Fairness

\* The control thread keeps running, and the clock advances whenever the
\* thread goes on reading it; nothing is assumed of the child, its
\* descendants or the drainers.
WaitFairness == WF_vars(wait) /\ SF_vars(Tick)

WaitLiveSpec == Init /\ [][Next]_vars /\ WaitFairness

TypeOK ==
  /\ childState \in {"running", "zombie", "reaped"}
  /\ now \in 0..(MaxDelay + MaxTime + 2 * MaxTimeout + 2 * JoinTimeout)
  /\ \A s \in Streams : Len(pipe[s]) <= PipeCap
  /\ pc \in {"init", "sp_wait", "loop1", "poll1", "if_none", "stop_time", "loop2",
             "poll2", "kill", "poll3", "duration", "cleanup", "join_stdout",
             "join_stderr", "assert_stdout", "assert_stderr", "assert_status",
             "close", "get_stdout", "get_stderr", "returned", "failed"}

\* ------------------------------------------- the buffers' locks, step by step
\* The same threads with the lock calls of _fd_drainer and of get_stdout /
\* get_stderr taken one at a time, and a thread of the owner that calls
\* get_stdout() / get_stderr() whenever it likes.
ioFrame == UNCHANGED <<osVars, ctlVars, now, echoVars, findVars>>

\* (mutant: acquire does not wait for the lock to be free)
acquire_at_once(l) == TRUE

\* lock.acquire(): the thread goes on once the lock is free
acquire(l) == l = "free"

\* output_file.write(tmp) is several steps of the interpreter: while it runs
\* the buffer holds the chunk in part (its last byte is shown negated)
Partial(chunk) ==
  [i \in 1..Len(chunk) |-> IF i = Len(chunk) THEN 0 - chunk[i] ELSE chunk[i]]

\* lock.acquire()
fd_acquire(s) ==
  /\ dpc[s] = "append"
  /\ acquire(lock[output_file(s)])
  /\ lock' = [lock EXCEPT ![output_file(s)] = "drainer"]
  /\ dpc' = [dpc EXCEPT ![s] = "write"]
  /\ UNCHANGED <<pipe, pipeClosed, tmp, file, callVars>>
  /\ ioFrame

\* output_file.write(tmp) begins
fd_write(s) ==
  /\ dpc[s] = "write"
  /\ file' = [file EXCEPT ![output_file(s)] = @ \o Partial(tmp[s])]
  /\ dpc' = [dpc EXCEPT ![s] = "writing"]
  /\ UNCHANGED <<pipe, pipeClosed, tmp, lock, callVars>>
  /\ ioFrame

\* (mutant: the chunk is written at the start of the buffer)
fd_written_rewinds(s) ==
  /\ dpc[s] = "writing"
  /\ file' = [file EXCEPT ![output_file(s)] = tmp[s]]
  /\ dpc' = [dpc EXCEPT ![s] = "release"]
  /\ UNCHANGED <<pipe, pipeClosed, tmp, lock, callVars>>
  /\ ioFrame

\* output_file.write(tmp) ends: the chunk is at the end of the buffer
fd_written(s) ==
  /\ dpc[s] = "writing"
  /\ file' = [file EXCEPT ![output_file(s)] =
                SubSeq(@, 1, Len(@) - Len(tmp[s])) \o tmp[s]]
  /\ dpc' = [dpc EXCEPT ![s] = "release"]
  /\ UNCHANGED <<pipe, pipeClosed, tmp, lock, callVars>>
  /\ ioFrame

\* finally: lock.release(), and back to os.read
fd_release(s) ==
  /\ dpc[s] = "release"
  /\ lock' = [lock EXCEPT ![output_file(s)] = "free"]
  /\ tmp' = [tmp EXCEPT ![s] = <<>>]
  /\ dpc' = [dpc EXCEPT ![s] = "read"]
  /\ UNCHANGED <<pipe, pipeClosed, file, callVars>>
  /\ ioFrame

\* get_stdout / get_stderr called by the owner: self.stdout_lock.acquire()
call_acquire(s) ==
  /\ callpc = "idle"
  /\ acquire(lock[s])
  /\ lock' = [lock EXCEPT ![s] = "caller"]
  /\ callpc' = s
  /\ UNCHANGED <<pipe, pipeClosed, dpc, tmp, file, snap>>
  /\ ioFrame

\* stdout = self.stdout_file.getvalue(); self.stdout_lock.release(); return
call_getvalue(s) ==
  /\ callpc = s
  /\ snap' = [snap EXCEPT ![s] = getvalue(s)]
  /\ lock' = [lock EXCEPT ![s] = "free"]
  /\ callpc' = "idle"
  /\ UNCHANGED <<pipe, pipeClosed, dpc, tmp, file>>
  /\ ioFrame

fd_drainer_locking ==
  \E s \in Streams :
    fd_read(s) \/ fd_acquire(s) \/ fd_write(s) \/ fd_written(s) \/ fd_release(s)

get_output == \E s \in Streams : call_acquire(s) \/ call_getvalue(s)

\* wait() with its default timeout=None: no deadline and no signal
wait_default ==
  \/ wait_call(None) \/ sp_wait \/ if_none \/ set_duration
  \/ cleanup \/ join_stdout \/ join_stderr \/ assert_stdout \/ assert_stderr
  \/ assert_status \/ close \/ get_stdout \/ get_stderr

LockNext ==
  \/ Tick \/ ChildWrite \/ ChildExit \/ HolderExit
  \/ fd_drainer_locking
  \/ get_output
  \/ wait_default

LockSpec == Init /\ [][LockNext]_vars

\* ---------------------------------------------------------- find_command
\* The PATH variable is a string: here a sequence of tokens, each a
\* directory name or the separator ":" (two names are never adjacent).
\* The file system is the set of directories holding a regular file named
\* cmd, the current directory among them.
MaxPathLen == 3          \* longest PATH, in tokens
cmd == "cmd"
cwd == "/cwd"
PathNames == {"/usr/bin", "/opt/bin"}
FileDirs == {"/usr/local/bin", "/usr/bin", "/opt/bin", cwd}

PathStrings ==
  {p \in SeqsUpTo(PathNames \cup {":"}, MaxPathLen) :
     \A i \in 1..(Len(p) - 1) : p[i] = ":" \/ p[i + 1] = ":"}

common_bin_paths == <<"/usr/libexec", "/usr/local/sbin", "/usr/local/bin",
                      "/usr/sbin", "/usr/bin", "/sbin", "/bin">>

\* str.split(":"): the fields between the separators, empty ones included
Field(p) == IF p = <<>> THEN "" ELSE p[1]
RECURSIVE split(_)
split(p) ==
  IF \A i \in 1..Len(p) : p[i] # ":"
  THEN <<Field(p)>>
  ELSE LET i == CHOOSE k \in 1..Len(p) :
                   p[k] = ":" /\ \A j \in 1..(k - 1) : p[j] # ":"
       IN  <<Field(SubSeq(p, 1, i - 1))>> \o split(SubSeq(p, i + 1, Len(p)))

\* misc.unique: duplicates removed, the order of first occurrences kept
RECURSIVE unique(_)
unique(q) ==
  IF q = <<>> THEN <<>>
  ELSE LET r == unique(SubSeq(q, 1, Len(q) - 1))
           x == q[Len(q)]
       IN  IF \E i \in 1..Len(r) : r[i] = x THEN r ELSE Append(r, x)

\* os.path.join(dir_path, cmd), os.path.isfile, os.path.abspath: an empty
\* directory name leaves the bare name, which is looked up in, and made
\* absolute with, the current directory
join(dir_path, name) == <<dir_path, name>>
Resolve(dir_path) == IF dir_path = "" THEN cwd ELSE dir_path
isfile(cmd_path) == Resolve(cmd_path[1]) \in files
abspath(cmd_path) == <<Resolve(cmd_path[1]), cmd_path[2]>>

\* os.environ['PATH'] raises KeyError when PATH is unset
Lookup == IF environ = None THEN [raises |-> "KeyError"] ELSE [value |-> Val(environ)]

\* path_paths = misc.unique(common_bin_paths + path_paths)
search_path(path) == unique(common_bin_paths \o split(path))

\* the for loop, the return and the raise of find_command
search(path_paths) ==
  LET hits == {i \in 1..Len(path_paths) : isfile(join(path_paths[i], cmd))}
  IN  IF hits = {}
      THEN [raises |-> "CmdNotFoundError", cmd |-> cmd, paths |-> path_paths]
      ELSE LET first == CHOOSE i \in hits : \A j \in hits : i <= j
           IN  [returns |-> abspath(join(path_paths[first], cmd))]

\* try: ... except IndexError: path_paths = []
find_command ==
  IF "raises" \in DOMAIN Lookup
  THEN IF Lookup.raises = "IndexError"
       THEN search(unique(common_bin_paths))
       ELSE [raises |-> Lookup.raises]
  ELSE search(search_path(Lookup.value))

find_command_call ==
  /\ found = None
  /\ found' = Some(find_command)
  /\ UNCHANGED <<environ, files>>
  /\ UNCHANGED <<osVars, ioVars, ctlVars, now, callVars, echoVars>>

\* find_command is called once, in any environment and file system; no
\* child is looked at
FindInit ==
  /\ InitSubProcess /\ prog = <<>> /\ ~holder
  /\ InitEcho
  /\ environ \in {None} \cup {Some(p) : p \in PathStrings}
  /\ files \in SUBSET FileDirs
  /\ found = None

FindSpec == FindInit /\ [][find_command_call]_vars

\* -------------------------------------------- a drainer with verbose echoing
\* One _fd_drainer with self.verbose set, seen alone: the characters of its
\* pipe arrive in chunks of any size up to MaxChunk.
MaxText == 4             \* longest stream, in characters
MaxChunk == 2            \* largest chunk one os.read returns
NL == "\n"
Chars == {"a", NL}

\* str.splitlines(): the lines without their newlines; a trailing newline
\* opens no further line
RECURSIVE splitlines(_)
splitlines(q) ==
  IF q = <<>> THEN <<>>
  ELSE IF \A i \in 1..Len(q) : q[i] # NL
  THEN <<q>>
  ELSE LET i == CHOOSE k \in 1..Len(q) :
                   q[k] = NL /\ \A j \in 1..(k - 1) : q[j] # NL
       IN  <<SubSeq(q, 1, i - 1)>> \o splitlines(SubSeq(q, i + 1, Len(q)))

\* tmp.endswith('\n')
endswith_newline(chunk) == chunk # <<>> /\ chunk[Len(chunk)] = NL

\* one turn of the loop with a chunk of n characters: output_file.write(tmp);
\* bfr += tmp; if tmp.endswith('\n'): log.debug each line of bfr; bfr = ''
echo_chunk(n) ==
  /\ ~echoDone
  /\ n \in 1..Min(MaxChunk, Len(stream))
  /\ LET chunk == SubSeq(stream, 1, n)
     IN  /\ stream' = SubSeq(stream, n + 1, Len(stream))
         /\ captured' = captured \o chunk
         /\ IF endswith_newline(chunk)
            THEN /\ logged' = logged \o splitlines(bfr \o chunk)
                 /\ bfr' = <<>>
            ELSE /\ bfr' = bfr \o chunk
                 /\ UNCHANGED logged
  /\ UNCHANGED echoDone
  /\ UNCHANGED <<osVars, ioVars, ctlVars, now, callVars, findVars>>

\* tmp == '': break -- the drainer returns, bfr is dropped as it is
echo_eof ==
  /\ ~echoDone
  /\ stream = <<>>
  /\ echoDone' = TRUE
  /\ UNCHANGED <<stream, captured, bfr, logged>>
  /\ UNCHANGED <<osVars, ioVars, ctlVars, now, callVars, findVars>>

EchoInit ==
  /\ InitSubProcess /\ prog = <<>> /\ ~holder
  /\ InitFind
  /\ stream \in SeqsUpTo(Chars, MaxText)
  /\ captured = <<>> /\ bfr = <<>> /\ logged = <<>> /\ echoDone = FALSE

EchoNext == (\E n \in 1..MaxChunk : echo_chunk(n)) \/ echo_eof

EchoSpec == EchoInit /\ [][EchoNext]_vars

\* ================================================================ claims
Exited == result.exit_status # None
AfterProtocol == {"duration", "cleanup", "join_stdout", "join_stderr",
                  "assert_stdout", "assert_stderr", "assert_status", "close",
                  "get_stdout", "get_stderr", "returned", "failed"}
PositiveTimeout == timeoutArg # None /\ Val(timeoutArg) > 0

\* the bytes the child has written to stream s, in order
Written(s) == SelectSeq([i \in 1..cpc |-> i], LAMBDA i : prog[i] = s)

\* C1: with a positive timeout, when the child ended by itself before wait
\* sent terminate() (also between the last poll of the timeout loop and the
\* deadline check), the wait protocol ends with result.exit_status equal to
\* the child's own exit code: not unset, not a signal status.
C1_OwnExitStatus ==
  (pc \in AfterProtocol /\ PositiveTimeout /\ exitEarly)
    => /\ result.exit_status = childStatus
       /\ Val(result.exit_status) \in ExitCodes
       /\ failure # "zombie"

\* C1 witness: the child ended by itself, unnoticed by the timeout loop, so
\* terminate() was sent to it; wait returned its own exit code.
C1_Witness ==
  /\ pc = "returned" /\ PositiveTimeout /\ exitEarly /\ waitTermSent
  /\ result.exit_status = childStatus

\* C2: the wait protocol escalates in order.  kill() is sent only from the
\* grace state: terminate() was sent before, the grace window computed after
\* it has fully elapsed and no exit status was observed; the window starts
\* after terminate(); and the protocol state only moves RUNNING ->
\* TIMED_OUT_GRACE | EXITED, TIMED_OUT_GRACE -> EXITED | TIMED_OUT_FORCE,
\* TIMED_OUT_FORCE -> EXITED, never out of EXITED.
ProtocolState ==
  IF Exited THEN "EXITED"
  ELSE IF waitKillSent THEN "TIMED_OUT_FORCE"
  ELSE IF waitTermSent THEN "TIMED_OUT_GRACE"
  ELSE "RUNNING"

ProtocolMoves ==
  {<<"RUNNING", "TIMED_OUT_GRACE">>, <<"RUNNING", "EXITED">>,
   <<"TIMED_OUT_GRACE", "EXITED">>, <<"TIMED_OUT_GRACE", "TIMED_OUT_FORCE">>,
   <<"TIMED_OUT_FORCE", "EXITED">>}

C2_Escalation ==
  [][ /\ (ProtocolState' # ProtocolState
            => <<ProtocolState, ProtocolState'>> \in ProtocolMoves)
      /\ (waitKillSent' /\ ~waitKillSent
            => waitTermSent /\ ~Exited /\ now >= stop_time /\ stop_time > 0)
      /\ (stop_time' # stop_time /\ stop_time' # 0
            => waitTermSent /\ stop_time' > now)
    ]_vars

\* C2 witness: terminate(), then kill(), then the status was obtained.
C2_Witness == pc = "returned" /\ waitTermSent /\ waitKillSent /\ Exited

\* C3: once wait has sent kill(), the one poll that follows obtains the exit
\* status: the protocol never ends after kill() with the status unset (the
\* 'Zombie Process' failure).
C3_KillPollReaps ==
  (pc \in AfterProtocol /\ waitKillSent) => (Exited /\ failure # "zombie")

\* C4: when wait returns normally, result.stdout is exactly the bytes the
\* child wrote to stdout and result.stderr exactly those it wrote to stderr.
C4_CapturedOutput ==
  pc = "returned" => /\ result.stdout = Written("stdout")
                     /\ result.stderr = Written("stderr")

\* C4 witness: wait returned and both streams carried data.
C4_Witness ==
  /\ pc = "returned"
  /\ result.stdout # <<>> /\ result.stderr # <<>>
  /\ cpc = MaxWrites

\* C5: once wait has returned its result, run raises CmdError exactly when
\* the exit status is not 0 (a signal status included) and ignore_status is
\* false, and returns the result otherwise.
C5_RunRaises ==
  /\ runOutcome = "CmdError"
       <=> /\ pc = "returned" /\ ignore_status = Some(FALSE)
           /\ result.exit_status # Some(0)
  /\ runOutcome = "returned"
       <=> /\ pc = "returned" /\ ignore_status # None
           /\ (result.exit_status = Some(0) \/ ignore_status = Some(TRUE))

\* C5 witness: run raised CmdError for a status caused by a signal of wait.
C5_Witness ==
  /\ runOutcome = "CmdError" /\ waitTermSent
  /\ Exited /\ Val(result.exit_status) < 0

\* C6: wait never returns a result with the exit status unset or a drainer
\* thread alive: past the assertions of cleanup the status is set and both
\* drainers have ended, and a failed assertion leaves wait without a result.
C6_NoPartialResult ==
  /\ pc \in {"close", "get_stdout", "get_stderr", "returned"}
       => Exited /\ \A s \in Streams : ~isAlive(s)
  /\ runOutcome \in {"returned", "CmdError"}
       => Exited /\ \A s \in Streams : ~isAlive(s)
  /\ failure # "" <=> pc = "failed"

\* C6 witness: a drainer was still alive after its join and wait aborted,
\* although the exit status was set.
C6_Witness ==
  /\ pc = "failed" /\ failure \in {"stdout_alive", "stderr_alive"}
  /\ Exited /\ runOutcome = "AssertionError"

\* C7: terminate() or kill() called by the owner on a child that has already
\* exited (reaped or not) does not raise and changes nothing: not the child,
\* not the pipes and buffers, not the result, not another process.
C7_SignalAfterExitIsNoOp ==
  [][ (calls' # calls /\ childState # "running")
        => /\ ~raised'
           /\ UNCHANGED <<childState, childStatus, pendingSig, otherSig>>
           /\ UNCHANGED <<ioVars, result>>
    ]_vars

\* C8: wait(None) passes sp.wait() only once the child has exited, records
\* the child's status, and never calls terminate() or kill().
C8_NoTimeoutNoSignal ==
  (timeoutArg = None /\ pc # "init")
    => /\ ~waitTermSent /\ ~waitKillSent
       /\ pc # "sp_wait" => /\ childState = "reaped"
                            /\ Exited
                            /\ result.exit_status = childStatus

\* C8 witness: wait(None) returned after the child had run for some time.
C8_Witness ==
  /\ timeoutArg = None /\ pc = "returned"
  /\ result.duration >= MaxTime /\ exitCause = "own"

\* C9: wait(0) sends no signal to a child that had already exited when wait
\* was called, and the result carries the child's own exit code.
C9_NoSignalIfExited ==
  (timeoutArg = Some(0) /\ exitedAtCall)
    => /\ ~waitTermSent
       /\ pc = "returned" => result.exit_status = childStatus

\* A signal was sent to the child; the child is blocked writing to a full pipe.
SignalSent == waitTermSent \/ calls > 0
ChildBlocked ==
  /\ childState = "running" /\ cpc < Len(prog)
  /\ Len(pipe[prog[cpc + 1]]) >= PipeCap

\* C10: no pipe-buffer deadlock.  Under fair scheduling of the child and the
\* drainers, with pipes of bounded capacity, the child is not blocked for
\* ever on a full pipe: it ends, with all its writes done unless a signal
\* was sent to it; and when no descendant holds the pipes both drainers
\* reach end-of-stream.
C10_NoPipeDeadlock ==
  /\ <>(childState # "running")
  /\ <>(SignalSent \/ (cpc = Len(prog) /\ exitCause = "own"))
  /\ ChildBlocked ~> ~ChildBlocked
  /\ ~holder => <>(\A s \in Streams : ~isAlive(s))

\* C10 witness: the child was blocked on a full stderr pipe while stdout was
\* still open, and went on to complete its writes; both drainers ended.
C10_Witness ==
  /\ prog = <<"stderr", "stderr">> /\ cpc = Len(prog) /\ exitCause = "own"
  /\ ~SignalSent
  /\ \A s \in Streams : ~isAlive(s)
  /\ file["stderr"] = <<1, 2>>

\* q is a prefix of r
IsPrefix(q, r) == Len(q) <= Len(r) /\ SubSeq(r, 1, Len(q)) = q

\* the threads inside the critical section of the buffer of stream s
Holders(s) ==
  (IF dpc[s] \in {"write", "writing", "release"} THEN {"drainer"} ELSE {})
    \cup (IF callpc = s THEN {"caller"} ELSE {})

\* C11: every append to a buffer and every snapshot read of it is made by a
\* thread holding the buffer's lock; at most one thread holds the lock, and
\* the lock is free whenever no thread is between its acquire and its
\* release; so every snapshot is made of whole chunks, in the order they
\* were written by the child, never of a chunk in part.
C11_LockedBuffers ==
  \A s \in Streams :
    /\ Cardinality(Holders(s)) <= 1
    /\ lock[s] = "free" <=> Holders(s) = {}
    /\ dpc[s] = "writing" => lock[s] = "drainer"
    /\ callpc = s => lock[s] = "caller"
    /\ dpc[s] # "writing" => IsPrefix(file[s], Written(s))
    /\ IsPrefix(snap[s], Written(s))

\* C11 witness: the caller holds the stdout lock for a second snapshot while
\* the drainer, a chunk in hand, waits for the lock to append it.
C11_Witness ==
  /\ callpc = "stdout" /\ lock["stdout"] = "caller"
  /\ dpc["stdout"] = "append" /\ tmp["stdout"] # <<>>
  /\ snap["stdout"] # <<>>

\* the list the claim describes: the standard directories, then those of
\* PATH (none when PATH is unset), without duplicates
ClaimedSearchList ==
  unique(common_bin_paths \o (IF environ = None THEN <<>> ELSE split(Val(environ))))

\* C12: find_command(cmd) returns the absolute path of cmd in the first
\* directory of the standard directories followed by those of PATH
\* (duplicates removed, first occurrences kept) that holds a regular file
\* named cmd, and raises CmdNotFoundError with cmd and that whole list when
\* none does, also when PATH contributes no directory.
C12_FindCommand ==
  found # None =>
    LET hits == {i \in 1..Len(ClaimedSearchList) :
                   Resolve(ClaimedSearchList[i]) \in files}
    IN  IF hits = {}
        THEN Val(found) = [raises |-> "CmdNotFoundError", cmd |-> cmd,
                           paths |-> ClaimedSearchList]
        ELSE \E i \in hits :
               /\ \A j \in hits : i <= j
               /\ Val(found) = [returns |-> <<Resolve(ClaimedSearchList[i]), cmd>>]

\* C13: the grace window between terminate() and kill() is 1 second when the
\* timeout was positive, whatever its value, and the timeout value itself
\* when the timeout was <= 0.
C13_GraceWindow ==
  [][ (pc = "stop_time" /\ pc' = "loop2")
        => stop_time' - now = IF PositiveTimeout THEN 1 ELSE Val(timeoutArg)
    ]_vars

\* C14: the deadline of a positive timeout is measured from the spawn: wait
\* polls only while fewer than timeout seconds have passed since the child
\* was spawned, and terminate() is sent no earlier than that.
C14_DeadlineFromSpawn ==
  PositiveTimeout =>
    /\ pc = "poll1" => now - start_time < Val(timeoutArg)
    /\ (waitTermSent /\ pc = "stop_time") => now - start_time >= Val(timeoutArg)

\* C15: the snapshots stored into the result are taken after both drainer
\* threads have ended: from the first snapshot on both drainers are done with
\* no chunk left to append, and the stored snapshots stay equal to the
\* buffers, so no append follows or races them.
C15_SnapshotAfterDrainers ==
  pc \in {"get_stdout", "get_stderr", "returned"}
    => /\ \A s \in Streams : dpc[s] = "done" /\ tmp[s] = <<>>
       /\ pc # "get_stdout" => result.stdout = file["stdout"]
       /\ pc = "returned" => result.stderr = file["stderr"]

\* C15 witness: wait returned output of both streams, and time passed in a
\* join while a drainer was still reading.
C15_Witness ==
  /\ pc = "returned"
  /\ result.stdout # <<>> /\ result.stderr # <<>>
  /\ now - start_time > result.duration

\* C16: a pipe is closed only after an exit status has been obtained and both
\* drainers have stopped reading.
C16_CloseAfterExit ==
  \A s \in Streams :
    pipeClosed[s] => (Exited /\ \A d \in Streams : dpc[d] = "done")

\* C16 witness: the pipes were closed after the child had to be killed.
C16_Witness ==
  /\ \A s \in Streams : pipeClosed[s]
  /\ waitKillSent /\ exitCause = "kill"

\* the part of q up to and including its last newline
UpToLastNewline(q) ==
  LET ends == {i \in 1..Len(q) : q[i] = NL}
  IN  IF ends = {} THEN <<>>
      ELSE SubSeq(q, 1, CHOOSE i \in ends : \A j \in ends : j <= i)

\* C17: with verbose echoing, every line is sent to the log as soon as its
\* newline has been read, only the partial trailing line being held back;
\* and when the drainer has finished, every line of the captured output,
\* the trailing one included, has been logged once and in order.
C17_EchoLines ==
  /\ logged = splitlines(UpToLastNewline(captured))
  /\ echoDone => logged = splitlines(captured)

\* C18: wait called with a timeout value (positive, zero or negative) always
\* ends, by returning its result or by a failed assertion of cleanup,
\* whatever the child, its descendants and the drainers do.
C18_WaitTerminates ==
  (pc # "init" /\ timeoutArg # None) ~> (pc \in {"returned", "failed"})

\* C18 witness: wait(-1) ended in a failed assertion because a descendant of
\* the child, itself killed, still held a pipe open.
C18_Witness ==
  /\ timeoutArg = Some(-1) /\ pc = "failed"
  /\ failure \in {"stdout_alive", "stderr_alive"}
  /\ holder /\ exitCause = "kill"

\* C19: the buffers only grow at their end, so for each stream a snapshot
\* returned by get_stdout / get_stderr is a prefix of every later one, and
\* every snapshot is a prefix of the stdout / stderr stored in the result
\* that wait returns.
C19_SnapshotsGrow ==
  /\ [](pc = "returned" => /\ IsPrefix(snap["stdout"], result.stdout)
                            /\ IsPrefix(snap["stderr"], result.stderr))
  /\ [][\A s \in Streams : IsPrefix(snap[s], snap'[s])]_vars

\* C19 witness: a snapshot of stderr taken while the child ran holds part of
\* what the result holds in the end.
C19_Witness ==
  /\ pc = "returned"
  /\ snap["stderr"] # <<>>
  /\ Len(snap["stderr"]) < Len(result.stderr)

\* C20: when wait ends in a failed assertion of cleanup, neither pipe has
\* been closed, result.stdout and result.stderr are still empty, and
\* result.duration holds the time from the spawn to the end of the wait
\* protocol (the two joins, of at most JoinTimeout each, came after it).
C20_FailureLeavesRest ==
  (pc = "failed" /\ failure \in {"stdout_alive", "stderr_alive", "zombie"})
    => /\ \A s \in Streams : ~pipeClosed[s]
       /\ result.stdout = <<>> /\ result.stderr = <<>>
       /\ result.duration <= now - start_time
       /\ result.duration >= now - start_time - 2 * JoinTimeout

\* C20 witness: the child was still running at the poll after kill(), so
\* cleanup failed with 'Zombie Process'; output had been captured but is not
\* in the result, and the duration is set.
C20_Witness ==
  /\ pc = "failed" /\ failure = "zombie"
  /\ file["stdout"] # <<>> /\ result.stdout = <<>>
  /\ result.duration > 0

====
